---- MODULE Spec2Model ----
(***************************************************************************)
(* A model of api/index.py: the in-memory dataset store (data_store) and   *)
(* the request handlers list / create / get / delete / filter / aggregate  *)
(* / stats over it.  A handler's result is what the handler returns or     *)
(* raises: status 200 with a body, an HTTPException (404 / 400) with its   *)
(* detail, or an exception no handler catches (status 500).                *)
(*                                                                         *)
(* Cells.  A cell is a record [t, v]: t is the kind ("num", "str", "none"  *)
(* for Python None, "nan" for a float NaN) and v a sequence of integers:   *)
(* <<n>> for the number n, the character codes for a string, <<>> for the  *)
(* two nulls.  Numbers compare by value, as Python's 1 == 1.0 does, so a   *)
(* column's dtype (int64 / float64) is kept apart from its cells.          *)
(***************************************************************************)
EXTENDS Integers, Sequences, FiniteSets, TLC

VARIABLES data_store, req, resp, live, handlers

vars == <<data_store, req, resp, live, handlers>>

-----------------------------------------------------------------------------
(* Characters, in code-point order; Ord is order preserving.               *)

Chars ==
  << " ", "'", ".", "0", "1", "2", "3", "4", "5", "6", "7", "8", "9",
     "A", "B", "C", "D", "E", "F", "L", "N", "S", "Y",
     "a", "b", "c", "e", "g", "h", "i", "k", "l", "n", "o", "r", "s",
     "v", "w", "x", "z" >>

Ord(c) == CHOOSE i \in 1..Len(Chars) : Chars[i] = c

Codes(s) == [i \in 1..Len(s) |-> Ord(s[i])]

Num(n) == [t |-> "num", v |-> <<n>>]
Str(s) == [t |-> "str", v |-> Codes(s)]
None == [t |-> "none", v |-> <<>>]
NaN == [t |-> "nan", v |-> <<>>]

IsNull(c) == c.t \in {"none", "nan"}
IsNum(c) == c.t = "num"
IsStr(c) == c.t = "str"
Val(c) == c.v[1]

(* Python's str < str: lexicographic on code points.                       *)
RECURSIVE StrLess(_, _)
StrLess(a, b) ==
  IF b = <<>> THEN FALSE
  ELSE IF a = <<>> THEN TRUE
  ELSE IF a[1] # b[1] THEN a[1] < b[1]
  ELSE StrLess(Tail(a), Tail(b))

(* str(n) of a non-negative int: its decimal digits.                       *)
RECURSIVE IntToStr(_)
IntToStr(n) ==
  IF n < 10 THEN <<Ord("0") + n>>
  ELSE IntToStr(n \div 10) \o <<Ord("0") + (n % 10)>>

(* str(x) of a float with an integral value: "75000.0".                    *)
FloatToStr(n) == IntToStr(n) \o Codes(<<".", "0">>)

(* str(value) of a Python object: int, str or None (a NaN prints "nan").   *)
PyStr(c) ==
  CASE c.t = "num" -> IntToStr(Val(c))
    [] c.t = "str" -> c.v
    [] c.t = "none" -> Codes(<<"N", "o", "n", "e">>)
    [] c.t = "nan" -> Codes(<<"n", "a", "n">>)

(* float(s) of a str accepts a decimal literal; the strings of this model  *)
(* that it accepts are runs of digits.                                     *)
IsFloatLiteral(s) ==
  /\ s # <<>>
  /\ \A i \in 1..Len(s) : s[i] >= Ord("0") /\ s[i] <= Ord("9")

RECURSIVE DigitsToInt(_)
DigitsToInt(s) ==
  IF s = <<>> THEN 0
  ELSE 10 * DigitsToInt(SubSeq(s, 1, Len(s) - 1)) + (s[Len(s)] - Ord("0"))

-----------------------------------------------------------------------------
(* pd.DataFrame(list of dicts).  An uploaded row is a dict, modelled as a  *)
(* sequence of <<key, cell>> pairs with distinct keys (dicts are ordered). *)

RowKeys(row) == [i \in 1..Len(row) |-> row[i][1]]
KeySet(row) == {row[i][1] : i \in 1..Len(row)}
RowGet(row, k) == row[CHOOSE i \in 1..Len(row) : row[i][1] = k][2]

(* The dict as a mapping: what == on two dicts compares.                   *)
RowRecord(row) == [k \in KeySet(row) |-> RowGet(row, k)]

(* The columns: the union of the rows' keys, in order of first appearance. *)
RECURSIVE AppendNew(_, _)
AppendNew(cols, keys) ==
  IF keys = <<>> THEN cols
  ELSE AppendNew(
         IF \E i \in 1..Len(cols) : cols[i] = Head(keys) THEN cols
         ELSE Append(cols, Head(keys)),
         Tail(keys))

(* Rows lo..hi, by halves (the recursion stays shallow on long uploads).   *)
RECURSIVE UnionColumnsOf(_, _, _)
UnionColumnsOf(rows, lo, hi) ==
  IF lo > hi THEN <<>>
  ELSE IF lo = hi THEN AppendNew(<<>>, RowKeys(rows[lo]))
  ELSE LET mid == (lo + hi) \div 2
       IN AppendNew(UnionColumnsOf(rows, lo, mid), UnionColumnsOf(rows, mid + 1, hi))

UnionColumns(rows) == UnionColumnsOf(rows, 1, Len(rows))

Range(s) == {s[i] : i \in 1..Len(s)}

(* The raw column: the row's value, or a NaN where the row lacks the key.  *)
RawCell(row, k) == IF k \in KeySet(row) THEN RowGet(row, k) ELSE NaN

(* dtype inference: all numbers -> int64; numbers and nulls -> float64;    *)
(* anything else (a string, or nulls only) -> object.                      *)
InferDtype(rows, k) ==
  LET raw == {RawCell(rows[i], k) : i \in 1..Len(rows)}
  IN IF \A c \in raw : IsNum(c) THEN "int64"
     ELSE IF (\A c \in raw : IsNum(c) \/ IsNull(c)) /\ (\E c \in raw : IsNum(c))
          THEN "float64"
     ELSE "object"

(* The stored cell: a float64 column holds its nulls as NaN; an object     *)
(* column keeps None as None.                                              *)
StoreCell(dtype, c) == IF dtype = "float64" /\ IsNull(c) THEN NaN ELSE c

DataFrame(rows) ==
  LET cols == UnionColumns(rows)
      dts == [k \in Range(cols) |-> InferDtype(rows, k)]
  IN [columns |-> cols,
      dtypes |-> dts,
      rows |-> [i \in 1..Len(rows) |->
                 [k \in Range(cols) |-> StoreCell(dts[k], RawCell(rows[i], k))]]]

len(df) == Len(df.rows)
shape(df) == <<Len(df.rows), Len(df.columns)>>
Column(df, k) == [i \in 1..Len(df.rows) |-> df.rows[i][k]]

(* df.to_dict(orient="records")                                            *)
to_dict(df) == df.rows

(* The seeded dataset.                                                     *)
SampleRow(id, name, age, city, salary) ==
  << <<"id", Num(id)>>, <<"name", Str(name)>>, <<"age", Num(age)>>,
     <<"city", Str(city)>>, <<"salary", Num(salary)>> >>

NewYork == <<"N", "e", "w", " ", "Y", "o", "r", "k">>

sample_data ==
  << SampleRow(1, <<"A", "l", "i", "c", "e">>, 30, NewYork, 75000),
     SampleRow(2, <<"B", "o", "b">>, 25,
               <<"S", "a", "n", " ", "F", "r", "a", "n", "c", "i", "s", "c", "o">>, 85000),
     SampleRow(3, <<"C", "h", "a", "r", "l", "i", "e">>, 35,
               <<"L", "o", "s", " ", "A", "n", "g", "e", "l", "e", "s">>, 65000),
     SampleRow(4, <<"D", "i", "a", "n", "a">>, 28, NewYork, 90000),
     SampleRow(5, <<"E", "v", "e">>, 32,
               <<"C", "h", "i", "c", "a", "g", "o">>, 72000) >>

-----------------------------------------------------------------------------
(* Responses.  A detail is the message, as a sequence of its pieces.       *)

Ok(body) == [status |-> 200, detail |-> <<>>, body |-> body]
HTTPException(status_code, detail) ==
  [status |-> status_code, detail |-> detail, body |-> <<>>]
NotFound == HTTPException(404, <<"Dataset not found">>)
ColumnNotFound(column) == HTTPException(400, <<"Column '", column, "' not found">>)
InvalidOperation == HTTPException(400, <<"Invalid operation">>)
(* An exception that escapes the handler: the framework answers 500.       *)
Unhandled(exc) == [status |-> 500, detail |-> <<exc>>, body |-> <<>>]

(* The outcome of a try block: a value, or the exception it raised.        *)
Returned(value) == [raised |-> FALSE, exc |-> <<>>, value |-> value]
Raised(exc) == [raised |-> TRUE, exc |-> exc, value |-> <<>>]

(* The exceptions a try block raises: [kind, status, msg].                 *)
TypeError(msg) == [kind |-> "TypeError", status |-> 0, msg |-> <<msg>>]
ValueError(msg) == [kind |-> "ValueError", status |-> 0, msg |-> <<msg>>]
RaisedHTTP(e) == [kind |-> "HTTPException", status |-> e.status, msg |-> e.detail]

(* str(e): the message of a TypeError or ValueError; an HTTPException      *)
(* prints as "<status_code>: <detail>" (releases of the framework that     *)
(* define no __str__ for it print the empty string).                       *)
StrException(e) ==
  IF e.kind = "HTTPException" THEN <<"400: ">> \o e.msg ELSE e.msg

(* except Exception as e: raise HTTPException(status_code=400,             *)
(* detail=str(e)); HTTPException is an Exception, so the handler's own     *)
(* 'Invalid operation' is caught here too.                                 *)
ExceptAs400(outcome) ==
  IF outcome.raised THEN HTTPException(400, StrException(outcome.exc))
  ELSE Ok(outcome.value)

-----------------------------------------------------------------------------
(* get_dataset                                                             *)

DefaultLimit == 100

Omitted == [k |-> "omitted", n |-> 0]
NoLimit == [k |-> "none", n |-> 0]
Limit(n) == [k |-> "int", n |-> n]

(* limit: Optional[int] = 100                                              *)
LimitParam(l) == IF l.k = "omitted" THEN Limit(DefaultLimit) ELSE l

Min(a, b) == IF a < b THEN a ELSE b
Max(a, b) == IF a > b THEN a ELSE b

(* df.head(n): the first n rows; all but the last -n rows when n < 0.      *)
head(df, n) ==
  [df EXCEPT !.rows =
     IF n >= 0 THEN SubSeq(df.rows, 1, Min(n, Len(df.rows)))
     ELSE SubSeq(df.rows, 1, Max(Len(df.rows) + n, 0))]

(* A limit of 0 taken as zero rows.                                        *)
limited_df_zero(df, limit) ==
  IF limit.k = "none" THEN df ELSE head(df, limit.n)

(* df.head(limit) if limit else df: None and 0 are falsy.                  *)
limited_df(df, limit) ==
  IF limit.k = "none" \/ limit.n = 0 THEN df ELSE head(df, limit.n)

get_body(df, limit) ==
  [data |-> to_dict(limited_df(df, limit)),
   columns |-> df.columns,
   total_rows |-> len(df),
   dtypes |-> df.dtypes]

get_dataset(store, dataset_name, limit) ==
  IF dataset_name \notin DOMAIN store THEN NotFound
  ELSE Ok(get_body(store[dataset_name], LimitParam(limit)))

-----------------------------------------------------------------------------
(* list_datasets, create_dataset, delete_dataset                           *)

list_datasets(store) ==
  Ok([name \in DOMAIN store |->
        [rows |-> len(store[name]),
         columns |-> store[name].columns,
         shape |-> shape(store[name])]])

(* pd.DataFrame accepts every list of dicts of scalars, so the try block   *)
(* of create_dataset returns for every upload of this model.               *)
create_body(name, df) ==
  [message |-> <<"Dataset '", name, "' created successfully">>,
   shape |-> shape(df),
   columns |-> df.columns]

(* An assignment that drops the other datasets.                            *)
SetItemAlone(store, name, df) == [n \in {name} |-> df]

(* data_store[name] = df                                                   *)
SetItem(store, name, df) ==
  [n \in DOMAIN store \cup {name} |-> IF n = name THEN df ELSE store[n]]

(* A del that removes nothing.                                             *)
DelItemKeeps(store, name) == store

(* del data_store[name]                                                    *)
DelItem(store, name) == [n \in DOMAIN store \ {name} |-> store[n]]

delete_body(name) == [message |-> <<"Dataset '", name, "' deleted successfully">>]

-----------------------------------------------------------------------------
(* filter_data                                                             *)

(* A gt that also keeps the equal numbers.                                 *)
CompareSameOrEqual(op, a, b) ==
  IF IsNum(a)
  THEN CASE op = "eq" -> Val(a) = Val(b)
         [] op = "gt" -> Val(a) >= Val(b)
         [] op = "lt" -> Val(a) < Val(b)
  ELSE CASE op = "eq" -> a.v = b.v
         [] op = "gt" -> StrLess(b.v, a.v)
         [] op = "lt" -> StrLess(a.v, b.v)

(* One comparison of two non-null scalars of the same kind.                *)
CompareSame(op, a, b) ==
  IF IsNum(a)
  THEN CASE op = "eq" -> Val(a) = Val(b)
         [] op = "gt" -> Val(a) > Val(b)
         [] op = "lt" -> Val(a) < Val(b)
  ELSE CASE op = "eq" -> a.v = b.v
         [] op = "gt" -> StrLess(b.v, a.v)
         [] op = "lt" -> StrLess(a.v, b.v)

AllFalse(n) == [i \in 1..n |-> FALSE]

(* df[column] <op> value on an int64 / float64 column: a null value and a  *)
(* NaN cell compare False; a string compares unequal under ==, and is an   *)
(* invalid comparison (TypeError) under > and <.                           *)
CompareNumeric(cells, op, value) ==
  IF IsNull(value) THEN Returned(AllFalse(Len(cells)))
  ELSE IF IsStr(value)
       THEN IF op = "eq" THEN Returned(AllFalse(Len(cells)))
            ELSE Raised(TypeError("Invalid comparison between dtype and str"))
  ELSE Returned([i \in 1..Len(cells) |->
                   IsNum(cells[i]) /\ CompareSame(op, cells[i], value)])

(* The same on an object column: cell by cell with Python's operators; a   *)
(* null on either side compares False; > and < between a str and an int    *)
(* raise TypeError.                                                        *)
CompareObject(cells, op, value) ==
  IF IsNull(value) THEN Returned(AllFalse(Len(cells)))
  ELSE IF op # "eq" /\ \E i \in 1..Len(cells) :
                         ~IsNull(cells[i]) /\ cells[i].t # value.t
       THEN Raised(TypeError("not supported between instances"))
  ELSE Returned([i \in 1..Len(cells) |->
                   /\ ~IsNull(cells[i])
                   /\ cells[i].t = value.t
                   /\ CompareSame(op, cells[i], value)])

SeriesCompare(df, column, op, value) ==
  IF df.dtypes[column] = "object"
  THEN CompareObject(Column(df, column), op, value)
  ELSE CompareNumeric(Column(df, column), op, value)

(* df[column].astype(str): an int64 cell prints as an int, a float64 cell  *)
(* as a float ("1.0", "nan"), an object cell as str(cell) ("None", "nan"). *)
AsTypeStr(dtype, c) ==
  IF dtype = "float64" /\ IsNum(c) THEN FloatToStr(Val(c)) ELSE PyStr(c)

(* re.search of a pattern without metacharacters: substring search.        *)
StrContains(s, pat) ==
  \E i \in 0..(Len(s) - Len(pat)) : SubSeq(s, i + 1, i + Len(pat)) = pat

(* .astype(str).str.contains(str(value), na=False): after astype(str) no   *)
(* cell is missing, so na=False replaces nothing.                          *)
SeriesContains(df, column, value) ==
  LET cells == Column(df, column)
  IN Returned([i \in 1..Len(cells) |->
                 StrContains(AsTypeStr(df.dtypes[column], cells[i]), PyStr(value))])

(* df[mask]: the rows where the mask is True, in order (rows lo..hi, by    *)
(* halves).                                                                *)
RECURSIVE BoolSelect(_, _, _, _)
BoolSelect(rows, mask, lo, hi) ==
  IF lo > hi THEN <<>>
  ELSE IF lo = hi THEN (IF mask[lo] THEN <<rows[lo]>> ELSE <<>>)
  ELSE LET mid == (lo + hi) \div 2
       IN BoolSelect(rows, mask, lo, mid) \o BoolSelect(rows, mask, mid + 1, hi)

BoolIndex(df, mask) ==
  [df EXCEPT !.rows = BoolSelect(df.rows, mask, 1, Len(df.rows))]

filter_body(filtered_df) ==
  [data |-> to_dict(filtered_df), total_rows |-> len(filtered_df)]

(* The try block of filter_data.                                           *)
filter_try(df, column, operation, value) ==
  LET mask ==
        IF operation \in {"eq", "gt", "lt"}
        THEN SeriesCompare(df, column, operation, value)
        ELSE IF operation = "contains" THEN SeriesContains(df, column, value)
        ELSE Raised(RaisedHTTP(InvalidOperation))
  IN IF mask.raised THEN mask
     ELSE Returned(filter_body(BoolIndex(df, mask.value)))

(* The handler after its lookup df = data_store[dataset_name].             *)
filter_df(df, column, operation, value) ==
  IF column \notin Range(df.columns) THEN ColumnNotFound(column)
  ELSE ExceptAs400(filter_try(df, column, operation, value))

filter_data(store, dataset_name, column, operation, value) ==
  IF dataset_name \notin DOMAIN store THEN NotFound
  ELSE filter_df(store[dataset_name], column, operation, value)

-----------------------------------------------------------------------------
(* aggregate_data.  A reduction's result is a scalar: a number n/d, a NaN  *)
(* or a string.                                                            *)

Number(n, d) == [k |-> "num", n |-> n, d |-> d, s |-> <<>>]
NaNScalar == [k |-> "nan", n |-> 0, d |-> 1, s |-> <<>>]
StrScalar(s) == [k |-> "str", n |-> 0, d |-> 1, s |-> s]

(* The non-null cells of a column, in order (skipna).                      *)
NonNull(cells) ==
  BoolSelect(cells, [i \in 1..Len(cells) |-> ~IsNull(cells[i])], 1, Len(cells))

(* The folds below take cells lo..hi by halves.                            *)
RECURSIVE SumVals(_, _, _)
SumVals(cells, lo, hi) ==
  IF lo > hi THEN 0
  ELSE IF lo = hi THEN Val(cells[lo])
  ELSE LET mid == (lo + hi) \div 2
       IN SumVals(cells, lo, mid) + SumVals(cells, mid + 1, hi)

RECURSIVE Concat(_, _, _)
Concat(cells, lo, hi) ==
  IF lo > hi THEN <<>>
  ELSE IF lo = hi THEN cells[lo].v
  ELSE LET mid == (lo + hi) \div 2
       IN Concat(cells, lo, mid) \o Concat(cells, mid + 1, hi)

RECURSIVE MinVal(_, _, _)
MinVal(cells, lo, hi) ==
  IF lo = hi THEN Val(cells[lo])
  ELSE LET mid == (lo + hi) \div 2
       IN Min(MinVal(cells, lo, mid), MinVal(cells, mid + 1, hi))

RECURSIVE MaxVal(_, _, _)
MaxVal(cells, lo, hi) ==
  IF lo = hi THEN Val(cells[lo])
  ELSE LET mid == (lo + hi) \div 2
       IN Max(MaxVal(cells, lo, mid), MaxVal(cells, mid + 1, hi))

RECURSIVE MinStr(_, _, _)
MinStr(cells, lo, hi) ==
  IF lo = hi THEN cells[lo].v
  ELSE LET mid == (lo + hi) \div 2
           a == MinStr(cells, lo, mid)
           b == MinStr(cells, mid + 1, hi)
       IN IF StrLess(b, a) THEN b ELSE a

RECURSIVE MaxStr(_, _, _)
MaxStr(cells, lo, hi) ==
  IF lo = hi THEN cells[lo].v
  ELSE LET mid == (lo + hi) \div 2
           a == MaxStr(cells, lo, mid)
           b == MaxStr(cells, mid + 1, hi)
       IN IF StrLess(a, b) THEN b ELSE a

(* The values in ascending order: the j-th is the value with fewer than j  *)
(* values below it and at least j values not above it.                     *)
SortVals(cells) ==
  LET n == Len(cells)
      below(v) == Cardinality({i \in 1..n : Val(cells[i]) < v})
      upto(v) == Cardinality({i \in 1..n : Val(cells[i]) <= v})
  IN [j \in 1..n |->
        CHOOSE v \in {Val(cells[i]) : i \in 1..n} : below(v) < j /\ j <= upto(v)]

(* The median: the middle value, or the mean of the two middle values.     *)
MedianVals(cells) ==
  LET srt == SortVals(cells)
      n == Len(srt)
  IN IF n % 2 = 1 THEN Number(srt[(n + 1) \div 2], 1)
     ELSE Number(srt[n \div 2] + srt[n \div 2 + 1], 2)

(* A mean and a minimum that count the NaN cells in.                       *)
ReduceNumericAll(cells, operation) ==
  LET nn == NonNull(cells)
  IN IF operation = "sum" THEN Returned(Number(SumVals(nn, 1, Len(nn)), 1))
     ELSE IF operation = "count" THEN Returned(Number(Len(nn), 1))
     ELSE IF nn = <<>> THEN Returned(NaNScalar)
     ELSE IF operation = "mean"
          THEN Returned(Number(SumVals(nn, 1, Len(nn)), Len(cells)))
     ELSE IF operation = "median" THEN Returned(MedianVals(nn))
     ELSE IF operation = "min" /\ Len(nn) < Len(cells) THEN Returned(NaNScalar)
     ELSE IF operation = "min" THEN Returned(Number(MinVal(nn, 1, Len(nn)), 1))
     ELSE Returned(Number(MaxVal(nn, 1, Len(nn)), 1))

(* A reduction of an int64 / float64 column: NaN cells are skipped; the    *)
(* sum of no cell is 0, the other reductions of no cell are NaN.           *)
ReduceNumeric(cells, operation) ==
  LET nn == NonNull(cells)
  IN IF operation = "sum" THEN Returned(Number(SumVals(nn, 1, Len(nn)), 1))
     ELSE IF operation = "count" THEN Returned(Number(Len(nn), 1))
     ELSE IF nn = <<>> THEN Returned(NaNScalar)
     ELSE IF operation = "mean" THEN Returned(Number(SumVals(nn, 1, Len(nn)), Len(nn)))
     ELSE IF operation = "median" THEN Returned(MedianVals(nn))
     ELSE IF operation = "min" THEN Returned(Number(MinVal(nn, 1, Len(nn)), 1))
     ELSE Returned(Number(MaxVal(nn, 1, Len(nn)), 1))

(* A reduction of an object column: count counts the non-null cells; a     *)
(* column of nulls only sums to 0 and has no mean, median, min or max; a   *)
(* column of strings only sums to their concatenation and has a smallest   *)
(* and a largest string, but no mean or median; every other mix of cells   *)
(* fails in the arithmetic or comparison (TypeError).                      *)
ReduceObject(cells, operation) ==
  LET nn == NonNull(cells)
  IN IF operation = "count" THEN Returned(Number(Len(nn), 1))
     ELSE IF nn = <<>>
          THEN IF operation = "sum" THEN Returned(Number(0, 1))
               ELSE Returned(NaNScalar)
     ELSE IF \E i \in 1..Len(cells) : ~IsStr(cells[i])
          THEN Raised(TypeError("unsupported operand type(s)"))
     ELSE IF operation = "sum" THEN Returned(StrScalar(Concat(cells, 1, Len(cells))))
     ELSE IF operation = "min" THEN Returned(StrScalar(MinStr(cells, 1, Len(cells))))
     ELSE IF operation = "max" THEN Returned(StrScalar(MaxStr(cells, 1, Len(cells))))
     ELSE Raised(TypeError("Could not convert string to numeric"))

SeriesReduce(df, column, operation) ==
  IF df.dtypes[column] = "object"
  THEN ReduceObject(Column(df, column), operation)
  ELSE ReduceNumeric(Column(df, column), operation)

NullResult == [isnull |-> TRUE, n |-> 0, d |-> 1]
FloatResult(n, d) == [isnull |-> FALSE, n |-> n, d |-> d]

(* float(result) if pd.notna(result) else None                             *)
CoerceFloat(result) ==
  CASE result.k = "nan" -> Returned(NullResult)
    [] result.k = "num" -> Returned(FloatResult(result.n, result.d))
    [] result.k = "str" ->
         IF IsFloatLiteral(result.s)
         THEN Returned(FloatResult(DigitsToInt(result.s), 1))
         ELSE Raised(ValueError("could not convert string to float"))

(* The try block of aggregate_data.                                        *)
aggregate_try(df, column, operation) ==
  IF operation \notin {"sum", "mean", "median", "count", "min", "max"}
  THEN Raised(RaisedHTTP(InvalidOperation))
  ELSE LET result == SeriesReduce(df, column, operation)
       IN IF result.raised THEN result
          ELSE LET coerced == CoerceFloat(result.value)
               IN IF coerced.raised THEN coerced
                  ELSE Returned([column |-> column,
                                 operation |-> operation,
                                 result |-> coerced.value])

(* The handler after its lookup df = data_store[dataset_name].             *)
aggregate_df(df, column, operation) ==
  IF column \notin Range(df.columns) THEN ColumnNotFound(column)
  ELSE ExceptAs400(aggregate_try(df, column, operation))

aggregate_data(store, dataset_name, column, operation) ==
  IF dataset_name \notin DOMAIN store THEN NotFound
  ELSE aggregate_df(store[dataset_name], column, operation)

-----------------------------------------------------------------------------
(* get_statistics.  df.describe(include='all') refuses a frame without     *)
(* columns (ValueError, which the handler does not catch); of the summary  *)
(* the model keeps each column's count of non-null cells.                  *)

NullCount(cells) == Len(cells) - Len(NonNull(cells))

stats_df(df) ==
  IF df.columns = <<>>
  THEN Unhandled("ValueError: Cannot describe a DataFrame without columns")
  ELSE Ok([statistics |->
             [k \in Range(df.columns) |-> [count |-> Len(NonNull(Column(df, k)))]],
           null_counts |->
             [k \in Range(df.columns) |-> NullCount(Column(df, k))]])

get_statistics(store, dataset_name) ==
  IF dataset_name \notin DOMAIN store THEN NotFound
  ELSE stats_df(store[dataset_name])

-----------------------------------------------------------------------------
(* The requests the model sends.                                           *)

MaxRows == 3
MaxLimit == 3
NumProcs == 2

Names == {"sample", "d"}

X(c) == << <<"x", c>> >>

UploadCells == {Num(1), Num(2), None, Str(<<"n", "a">>)}
UploadRows == {<<>>} \cup {X(c) : c \in UploadCells}

(* Every upload of at most MaxRows rows with the one column x.             *)
Uploads == UNION {[1..n -> UploadRows] : n \in 0..MaxRows}

(* An upload longer than the default limit.                                *)
BigUpload == [i \in 1..(DefaultLimit + 1) |-> X(Num(i % 3))]

(* The uploads of the store machine.                                       *)
Pool ==
  { <<>>,
    <<X(Num(1))>>,
    <<X(Num(2)), X(Num(1))>>,
    <<X(Num(1)), X(None)>>,
    <<X(Str(<<"n", "a">>)), X(None)>>,
    << <<>>, X(Num(2))>>,
    BigUpload }

Limits ==
  {Omitted, NoLimit}
    \cup {Limit(n) : n \in (0 - MaxLimit)..MaxLimit}
    \cup {Limit(DefaultLimit), Limit(DefaultLimit + 1), Limit(0 - DefaultLimit)}

ColumnNames == {"x", "name", "city", "salary", "zz"}
FilterOps == {"eq", "gt", "lt", "contains", "ne"}
AggregateOps == {"sum", "mean", "median", "count", "min", "max", "std"}
FilterValues ==
  {Num(1), Num(2), None, Str(<<"n", "a">>), Str(<<"n", "a", "n">>),
   Str(<<"N", "o", "n", "e">>), Str(NewYork)}

Procs == 1..NumProcs

(* The handlers that test dataset_name for membership first.               *)
ReadsOrDelete == {"get", "delete", "filter", "aggregate", "stats"}

CreateReq(name, data) == [op |-> "create", name |-> name, data |-> data]
GetReq(name, limit) == [op |-> "get", name |-> name, limit |-> limit]
DeleteReq(name) == [op |-> "delete", name |-> name]
FilterReq(name, column, operation, value) ==
  [op |-> "filter", name |-> name, column |-> column,
   operation |-> operation, value |-> value]
AggregateReq(name, column, operation) ==
  [op |-> "aggregate", name |-> name, column |-> column, operation |-> operation]
StatsReq(name) == [op |-> "stats", name |-> name]
ListReq == [op |-> "list", name |-> ""]
NoReq == [op |-> "none", name |-> ""]

Idle == [pc |-> "idle", req |-> NoReq, resp |-> Ok(<<>>), size |-> 0]

-----------------------------------------------------------------------------
(* The store machine: one request at a time, each handled to its end.      *)
(* live is history: the names whose last successful mutation is a create   *)
(* (the seeding of "sample" counts as one).                                *)

Init ==
  /\ data_store = [n \in {"sample"} |-> DataFrame(sample_data)]
  /\ req = NoReq
  /\ resp = Ok(<<>>)
  /\ live = {"sample"}
  /\ handlers = [p \in Procs |-> Idle]

List ==
  /\ req' = ListReq
  /\ resp' = list_datasets(data_store)
  /\ UNCHANGED <<data_store, live, handlers>>

Create(name, data) ==
  LET df == DataFrame(data)
  IN /\ req' = CreateReq(name, data)
     /\ data_store' = SetItem(data_store, name, df)
     /\ resp' = Ok(create_body(name, df))
     /\ live' = live \cup {name}
     /\ UNCHANGED handlers

Get(name, limit) ==
  /\ req' = GetReq(name, limit)
  /\ resp' = get_dataset(data_store, name, limit)
  /\ UNCHANGED <<data_store, live, handlers>>

Delete(name) ==
  /\ req' = DeleteReq(name)
  /\ IF name \notin DOMAIN data_store
     THEN /\ resp' = NotFound
          /\ UNCHANGED <<data_store, live>>
     ELSE /\ data_store' = DelItem(data_store, name)
          /\ resp' = Ok(delete_body(name))
          /\ live' = live \ {name}
  /\ UNCHANGED handlers

Filter(name, column, operation, value) ==
  /\ req' = FilterReq(name, column, operation, value)
  /\ resp' = filter_data(data_store, name, column, operation, value)
  /\ UNCHANGED <<data_store, live, handlers>>

Aggregate(name, column, operation) ==
  /\ req' = AggregateReq(name, column, operation)
  /\ resp' = aggregate_data(data_store, name, column, operation)
  /\ UNCHANGED <<data_store, live, handlers>>

Stats(name) ==
  /\ req' = StatsReq(name)
  /\ resp' = get_statistics(data_store, name)
  /\ UNCHANGED <<data_store, live, handlers>>

(* The store machine sends a few filter and aggregate requests; the full   *)
(* range of them is applied by QuerySpec below.                            *)
StoreColumns == {"x", "zz"}
StoreFilterOps == {"eq", "ne"}
StoreAggregateOps == {"sum", "std"}

Next ==
  \/ List
  \/ \E name \in Names, data \in Pool : Create(name, data)
  \/ \E name \in Names, limit \in Limits : Get(name, limit)
  \/ \E name \in Names : Delete(name)
  \/ \E name \in Names, column \in StoreColumns, operation \in StoreFilterOps :
        Filter(name, column, operation, Num(1))
  \/ \E name \in Names, column \in StoreColumns, operation \in StoreAggregateOps :
        Aggregate(name, column, operation)
  \/ \E name \in Names : Stats(name)

Spec == Init /\ [][Next]_vars

-----------------------------------------------------------------------------
(* The queries as functions of the stored dataset: the store holds the     *)
(* seeded sample or one upload under the name d, and one filter or         *)
(* aggregate request is applied to it.                                     *)

QueryInit ==
  /\ data_store \in
       {[n \in {"sample"} |-> DataFrame(sample_data)]}
         \cup {[n \in {"d"} |-> DataFrame(data)] : data \in Uploads}
  /\ req = NoReq
  /\ resp = Ok(<<>>)
  /\ live = DOMAIN data_store
  /\ handlers = [p \in Procs |-> Idle]

QueryNext ==
  /\ req = NoReq
  /\ \/ \E name \in Names, column \in ColumnNames, operation \in FilterOps,
           value \in FilterValues : Filter(name, column, operation, value)
     \/ \E name \in Names, column \in ColumnNames, operation \in AggregateOps :
           Aggregate(name, column, operation)

QuerySpec == QueryInit /\ [][QueryNext]_vars

-----------------------------------------------------------------------------
(* Concurrent handlers.  The handlers are plain functions, which the       *)
(* framework runs on worker threads: a handler's membership test           *)
(* 'name not in data_store' and its later data_store[name] or              *)
(* 'del data_store[name]' are separate steps, and another handler's steps  *)
(* may come between them.  A missing key at the later step is a KeyError,  *)
(* which no handler catches.  list_datasets iterates data_store.items();   *)
(* a dict that changes size under the iteration raises RuntimeError.       *)

ConcUpload == <<X(Num(1))>>

ConcRequests ==
  {ListReq}
    \cup {CreateReq(name, ConcUpload) : name \in Names}
    \cup {GetReq(name, Omitted) : name \in Names}
    \cup {DeleteReq(name) : name \in Names}
    \cup {FilterReq(name, "x", "eq", Num(1)) : name \in Names}
    \cup {AggregateReq(name, "x", "sum") : name \in Names}
    \cup {StatsReq(name) : name \in Names}

Goto(p, pc, r, response, size) ==
  handlers' = [handlers EXCEPT ![p] =
                 [pc |-> pc, req |-> r, resp |-> response, size |-> size]]

Done(p, response) == Goto(p, "done", handlers[p].req, response, 0)

(* A worker thread takes a request.                                        *)
Receive(p, r) ==
  /\ handlers[p].pc = "idle"
  /\ Goto(p, "start", r, Ok(<<>>), 0)
  /\ UNCHANGED <<data_store, req, resp, live>>

(* if dataset_name not in data_store: raise HTTPException(404)             *)
CheckExists(p) ==
  /\ handlers[p].pc = "start"
  /\ handlers[p].req.op \in ReadsOrDelete
  /\ IF handlers[p].req.name \notin DOMAIN data_store
     THEN Done(p, NotFound)
     ELSE Goto(p, "found", handlers[p].req, Ok(<<>>), 0)
  /\ UNCHANGED <<data_store, req, resp, live>>

(* The rest of a handler that reads: df = data_store[name] and on.         *)
HandleFrame(r, df) ==
  IF r.op = "get" THEN Ok(get_body(df, LimitParam(r.limit)))
  ELSE IF r.op = "filter" THEN filter_df(df, r.column, r.operation, r.value)
  ELSE IF r.op = "aggregate" THEN aggregate_df(df, r.column, r.operation)
  ELSE stats_df(df)

Lookup(p) ==
  /\ handlers[p].pc = "found"
  /\ handlers[p].req.op \in {"get", "filter", "aggregate", "stats"}
  /\ IF handlers[p].req.name \notin DOMAIN data_store
     THEN Done(p, Unhandled("KeyError"))
     ELSE Done(p, HandleFrame(handlers[p].req, data_store[handlers[p].req.name]))
  /\ UNCHANGED <<data_store, req, resp, live>>

(* del data_store[dataset_name]                                            *)
Del(p) ==
  /\ handlers[p].pc = "found"
  /\ handlers[p].req.op = "delete"
  /\ IF handlers[p].req.name \notin DOMAIN data_store
     THEN /\ Done(p, Unhandled("KeyError"))
          /\ UNCHANGED <<data_store, live>>
     ELSE /\ data_store' = DelItem(data_store, handlers[p].req.name)
          /\ live' = live \ {handlers[p].req.name}
          /\ Done(p, Ok(delete_body(handlers[p].req.name)))
  /\ UNCHANGED <<req, resp>>

(* create_dataset has no membership test: it builds the frame and stores   *)
(* it.                                                                     *)
CreateStore(p) ==
  /\ handlers[p].pc = "start"
  /\ handlers[p].req.op = "create"
  /\ LET df == DataFrame(handlers[p].req.data)
     IN /\ data_store' = SetItem(data_store, handlers[p].req.name, df)
        /\ Done(p, Ok(create_body(handlers[p].req.name, df)))
  /\ live' = live \cup {handlers[p].req.name}
  /\ UNCHANGED <<req, resp>>

(* for name, df in data_store.items(): the iterator notes the dict's size. *)
ListIter(p) ==
  /\ handlers[p].pc = "start"
  /\ handlers[p].req.op = "list"
  /\ Goto(p, "loop", handlers[p].req, Ok(<<>>), Cardinality(DOMAIN data_store))
  /\ UNCHANGED <<data_store, req, resp, live>>

ListLoop(p) ==
  /\ handlers[p].pc = "loop"
  /\ IF Cardinality(DOMAIN data_store) # handlers[p].size
     THEN Done(p, Unhandled("RuntimeError: dictionary changed size during iteration"))
     ELSE Done(p, list_datasets(data_store))
  /\ UNCHANGED <<data_store, req, resp, live>>

(* The response is sent and the thread is free again.                      *)
Respond(p) ==
  /\ handlers[p].pc = "done"
  /\ handlers' = [handlers EXCEPT ![p] = Idle]
  /\ UNCHANGED <<data_store, req, resp, live>>

ConcNext ==
  \E p \in Procs :
    \/ \E r \in ConcRequests : Receive(p, r)
    \/ CheckExists(p)
    \/ Lookup(p)
    \/ Del(p)
    \/ CreateStore(p)
    \/ ListIter(p)
    \/ ListLoop(p)
    \/ Respond(p)

ConcSpec == Init /\ [][ConcNext]_vars

-----------------------------------------------------------------------------
(* Properties of the store machine (Spec).                                 *)

Stored(name) == data_store[name]
Rectangular(data) ==
  \A i, j \in 1..Len(data) : KeySet(data[i]) = KeySet(data[j])
Records(data) == [i \in 1..Len(data) |-> RowRecord(data[i])]
UploadedColumns(data) == IF data = <<>> THEN {} ELSE KeySet(data[1])
IsRoundTripLimit(limit, data) == limit \in {NoLimit, Limit(0), Limit(Len(data))}

(* C1: a successful create(name, rows) of rectangular rows, immediately    *)
(* followed by get(name) with limit None, 0 or len(rows), returns exactly  *)
(* the uploaded rows in upload order, total_rows = len(rows) and the       *)
(* uploaded column names.                                                  *)
C1_RoundTrip ==
  [][ ( /\ req.op = "create" /\ resp.status = 200
        /\ Rectangular(req.data)
        /\ req'.op = "get" /\ req'.name = req.name
        /\ IsRoundTripLimit(req'.limit, req.data) )
      => ( /\ resp'.status = 200
           /\ resp'.body.data = Records(req.data)
           /\ resp'.body.total_rows = Len(req.data)
           /\ Range(resp'.body.columns) = UploadedColumns(req.data)
           /\ Len(resp'.body.columns) = Cardinality(UploadedColumns(req.data)) )
    ]_vars

(* C2: while the last successful mutation of a name is not a create (it    *)
(* was deleted, or never created), get, delete, filter, aggregate and      *)
(* stats on it answer 404 'Dataset not found' and remove nothing.          *)
C2_DeletedIsNotFound ==
  [][ (req'.op \in ReadsOrDelete /\ req'.name \notin live)
      => (resp' = NotFound /\ data_store' = data_store) ]_vars

(* "sample" was deleted and a later get of it is answered 404.             *)
C2_Witness ==
  /\ req = GetReq("sample", Omitted)
  /\ "sample" \notin live
  /\ "d" \in live
  /\ resp.status = 404

(* The number of rows the claim promises for a limit.                      *)
PromisedRows(limit, n) ==
  IF limit.k = "omitted" THEN Min(DefaultLimit, n)
  ELSE IF limit.k = "none" \/ limit.n = 0 THEN n
  ELSE Min(limit.n, n)

(* The same, a negative limit -k dropping the last k rows.                 *)
ReturnedRows(limit, n) ==
  IF limit.k = "int" /\ limit.n < 0 THEN Max(n + limit.n, 0)
  ELSE PromisedRows(limit, n)

GetOfExisting == req.op = "get" /\ req.name \in DOMAIN data_store

(* C3 as stated: for every integer limit, get returns the first            *)
(* min(limit, n) rows (all n rows for 0 or None, at most 100 when          *)
(* omitted) and total_rows = n.                                            *)
C3_EveryLimit ==
  GetOfExisting =>
    /\ resp.status = 200
    /\ resp.body.total_rows = len(Stored(req.name))
    /\ resp.body.data =
         SubSeq(Stored(req.name).rows, 1,
                PromisedRows(req.limit, len(Stored(req.name))))

(* C3 amended: the same for every limit >= 0; a negative limit -k returns  *)
(* the first max(n - k, 0) rows.                                           *)
C3_NonNegativeLimit ==
  GetOfExisting =>
    /\ resp.status = 200
    /\ resp.body.total_rows = len(Stored(req.name))
    /\ resp.body.data =
         SubSeq(Stored(req.name).rows, 1,
                ReturnedRows(req.limit, len(Stored(req.name))))

(* limit=2 on the seeded sample: 2 rows of 5.                              *)
C3_Witness ==
  /\ req = GetReq("sample", Limit(2))
  /\ resp.status = 200
  /\ Len(resp.body.data) = 2
  /\ resp.body.total_rows = 5
  /\ resp.body.data[2]["name"] = Str(<<"B", "o", "b">>)

(* The default limit cuts a dataset of more than 100 rows.                 *)
C3_DefaultLimitReached ==
  /\ req.op = "get" /\ req.limit = Omitted
  /\ resp.status = 200
  /\ resp.body.total_rows = DefaultLimit + 1
  /\ Len(resp.body.data) = DefaultLimit

SameEntry(n) ==
  /\ (n \in DOMAIN data_store') = (n \in DOMAIN data_store)
  /\ n \in DOMAIN data_store => data_store'[n] = data_store[n]

-----------------------------------------------------------------------------
(* Properties of the queries (QuerySpec).                                  *)

OnExistingColumn ==
  /\ req.name \in DOMAIN data_store
  /\ req.column \in Range(Stored(req.name).columns)

Cells == Column(Stored(req.name), req.column)

(* a < b for strings: b continues a, or they first differ with a's         *)
(* character the smaller.                                                  *)
LexLess(a, b) ==
  \E k \in 0..Min(Len(a), Len(b)) :
    /\ SubSeq(a, 1, k) = SubSeq(b, 1, k)
    /\ \/ k = Len(a) /\ k < Len(b)
       \/ k < Len(a) /\ k < Len(b) /\ a[k + 1] < b[k + 1]

(* cell <op> value, for scalars of one kind; a null satisfies nothing.     *)
Satisfies(cell, op, value) ==
  /\ cell.t = value.t
  /\ ~IsNull(cell)
  /\ IF op = "eq" THEN cell.v = value.v
     ELSE IF IsNum(cell)
          THEN (IF op = "gt" THEN Val(cell) > Val(value) ELSE Val(cell) < Val(value))
     ELSE (IF op = "gt" THEN LexLess(value.v, cell.v) ELSE LexLess(cell.v, value.v))

(* data is the rows at the indexes of keep, in ascending order of index.   *)
IsSubsequenceAt(data, rows, keep) ==
  /\ Len(data) = Cardinality(keep)
  /\ \A j \in 1..Len(data) :
       \E i \in keep : /\ Cardinality({k \in keep : k <= i}) = j
                       /\ data[j] = rows[i]

(* The comparison is between scalars of one kind in every non-null cell.   *)
Comparable(cells, value) ==
  /\ ~IsNull(value)
  /\ \A i \in 1..Len(cells) : IsNull(cells[i]) \/ cells[i].t = value.t

(* C4: filter eq / gt / lt on an existing column returns exactly the rows  *)
(* whose cell satisfies the comparison, in stored order, and total_rows is *)
(* their number; it succeeds whenever the cells and the value are of one   *)
(* kind.                                                                   *)
C4_FilterCompare ==
  (req.op = "filter" /\ req.operation \in {"eq", "gt", "lt"} /\ OnExistingColumn)
  => /\ Comparable(Cells, req.value) => resp.status = 200
     /\ resp.status = 200 =>
          /\ IsSubsequenceAt(resp.body.data, Stored(req.name).rows,
               {i \in 1..Len(Cells) : Satisfies(Cells[i], req.operation, req.value)})
          /\ resp.body.total_rows = Len(resp.body.data)

(* sample filtered on city eq "New York": Alice and Diana, in that order.  *)
C4_Witness ==
  /\ req = FilterReq("sample", "city", "eq", Str(NewYork))
  /\ resp.status = 200
  /\ resp.body.total_rows = 2
  /\ resp.body.data[1]["name"] = Str(<<"A", "l", "i", "c", "e">>)
  /\ resp.body.data[2]["name"] = Str(<<"D", "i", "a", "n", "a">>)

KnownOps ==
  IF req.op = "filter" THEN {"eq", "gt", "lt", "contains"}
  ELSE {"sum", "mean", "median", "count", "min", "max"}

(* C5: filter and aggregate answer the first failing check: an unknown     *)
(* dataset 404; else an unknown column 400 with the column in the message; *)
(* else an unknown operation 400 with the message "Invalid operation".     *)
C5_ValidationOrder ==
  req.op \in {"filter", "aggregate"} =>
    IF req.name \notin DOMAIN data_store
    THEN resp.status = 404 /\ resp.detail = <<"Dataset not found">>
    ELSE IF req.column \notin Range(Stored(req.name).columns)
         THEN resp.status = 400 /\ req.column \in Range(resp.detail)
    ELSE req.operation \notin KnownOps
         => resp.status = 400 /\ resp.detail = <<"Invalid operation">>

AllStrings(cells) == \A i \in 1..Len(cells) : IsStr(cells[i])

(* C6: aggregate min / max on an existing column of strings succeeds, and  *)
(* its result is the lexicographically smallest / largest string.          *)
C6_StringMinMax ==
  ( /\ req.op = "aggregate" /\ req.operation \in {"min", "max"}
    /\ OnExistingColumn /\ AllStrings(Cells) )
  => /\ resp.status = 200
     /\ \E i \in 1..Len(Cells) :
          /\ resp.body.result = Cells[i]
          /\ \A j \in 1..Len(Cells) :
               IF req.operation = "min" THEN ~LexLess(Cells[j].v, Cells[i].v)
               ELSE ~LexLess(Cells[i].v, Cells[j].v)

NumericOrNull(cells) == \A i \in 1..Len(cells) : IsNum(cells[i]) \/ IsNull(cells[i])
NumIdx(cells) == {i \in 1..Len(cells) : IsNum(cells[i])}

RECURSIVE SumOver(_, _)
SumOver(cells, idx) ==
  IF idx = {} THEN 0
  ELSE LET i == CHOOSE i \in idx : TRUE
       IN Val(cells[i]) + SumOver(cells, idx \ {i})

(* The result is the number v.                                             *)
IsNumber(result, v) == ~result.isnull /\ result.d > 0 /\ result.n = v * result.d

(* The result n/d has at least half of the values on either side.          *)
IsMedian(result, cells) ==
  LET idx == NumIdx(cells)
  IN /\ ~result.isnull /\ result.d > 0
     /\ 2 * Cardinality({i \in idx : Val(cells[i]) * result.d <= result.n})
          >= Cardinality(idx)
     /\ 2 * Cardinality({i \in idx : Val(cells[i]) * result.d >= result.n})
          >= Cardinality(idx)
     /\ \/ \E i \in idx : Val(cells[i]) * result.d = result.n
        \/ \E i, j \in idx : (Val(cells[i]) + Val(cells[j])) * result.d = 2 * result.n

(* C7: aggregate on an existing column of numbers and nulls never fails:   *)
(* sum and count are the sum and the number of the non-null cells; min,    *)
(* max, mean and median are the reduction over the non-null cells, and     *)
(* null (a success, not an error) when there is no non-null cell.          *)
C7_NumericAggregate ==
  ( /\ req.op = "aggregate" /\ req.operation \in KnownOps
    /\ OnExistingColumn /\ NumericOrNull(Cells) )
  => LET idx == NumIdx(Cells)
         result == resp.body.result
     IN /\ resp.status = 200
        /\ resp.body.column = req.column
        /\ resp.body.operation = req.operation
        /\ req.operation = "sum" => IsNumber(result, SumOver(Cells, idx))
        /\ req.operation = "count" => IsNumber(result, Cardinality(idx))
        /\ (req.operation \in {"min", "max", "mean", "median"} /\ idx = {})
             => result.isnull
        /\ (req.operation = "min" /\ idx # {}) =>
             \E i \in idx : /\ IsNumber(result, Val(Cells[i]))
                            /\ \A j \in idx : Val(Cells[i]) <= Val(Cells[j])
        /\ (req.operation = "max" /\ idx # {}) =>
             \E i \in idx : /\ IsNumber(result, Val(Cells[i]))
                            /\ \A j \in idx : Val(Cells[i]) >= Val(Cells[j])
        /\ (req.operation = "mean" /\ idx # {}) =>
             /\ ~result.isnull /\ result.d > 0
             /\ result.n * Cardinality(idx) = SumOver(Cells, idx) * result.d
        /\ (req.operation = "median" /\ idx # {}) => IsMedian(result, Cells)

(* sum over salary in the seeded sample is 387000.                         *)
C7_Witness ==
  /\ req = AggregateReq("sample", "salary", "sum")
  /\ resp.status = 200
  /\ resp.body.result = FloatResult(387000, 1)

(* The mean of a column with a null and two numbers skips the null.        *)
C7_NullSkipped ==
  /\ req.op = "aggregate" /\ req.operation = "mean"
  /\ req.name \in DOMAIN data_store /\ req.column = "x"
  /\ \E i \in 1..Len(Cells) : Cells[i] = NaN
  /\ resp.status = 200
  /\ resp.body.result = FloatResult(3, 2)

(* C8: filter contains keeps a row exactly when its cell is non-null and   *)
(* str(value) is a substring of the cell's string form; a row with a null  *)
(* cell is never kept, whatever the value.                                 *)
C8_ContainsSkipsNull ==
  (req.op = "filter" /\ req.operation = "contains" /\ OnExistingColumn)
  => /\ resp.status = 200
     /\ IsSubsequenceAt(resp.body.data, Stored(req.name).rows,
          {i \in 1..Len(Cells) :
             /\ ~IsNull(Cells[i])
             /\ StrContains(AsTypeStr(Stored(req.name).dtypes[req.column], Cells[i]),
                            PyStr(req.value))})

-----------------------------------------------------------------------------
(* Properties of the concurrent handlers (ConcSpec).                       *)

(* C10: under every interleaving, a get, delete, filter, aggregate or      *)
(* stats request ends in a success or in an error of the taxonomy (404,    *)
(* 400): a delete between a handler's membership test and its lookup or    *)
(* del causes no unhandled missing-key failure.                            *)
C10_NoUnhandledFailure ==
  \A p \in Procs :
    (handlers[p].pc = "done" /\ handlers[p].req.op \in ReadsOrDelete)
    => handlers[p].resp.status \in {200, 400, 404}

====
